---- MODULE Spec2Model ----
(***************************************************************************)
(* A model of kopf/_core/intents/registries.py: the handler registries of  *)
(* an operator (activity, indexing, watching, spawning, changing,          *)
(* webhooks), the matching predicates (prematch, match and the _matches_*  *)
(* helpers), the deduplication of matched handlers, and the default       *)
(* registry of the process (get_default_registry, set_default_registry).   *)
(*                                                                         *)
(* Encoding of Python values.  Scalars are strings: None is "None", the    *)
(* filter tokens are "PRESENT" and "ABSENT", the private sentinel          *)
(* _UNSET.token is "_UNSET", data values are "prod", "dev", "1", "2".      *)
(* A callable used as a filter criterion is a string "fn:<name>" whose     *)
(* behaviour is given by Call.  Mappings are TLA+ functions on a finite    *)
(* set of keys; a field path is a sequence of keys.                        *)
(***************************************************************************)
EXTENDS Naturals, Sequences, FiniteSets, TLC

VARIABLES
    _activities,   \* OperatorRegistry._activities._handlers
    _indexing,     \* OperatorRegistry._indexing._handlers
    _watching,     \* OperatorRegistry._watching._handlers
    _spawning,     \* OperatorRegistry._spawning._handlers
    _changing,     \* OperatorRegistry._changing._handlers
    _webhooks,     \* OperatorRegistry._webhooks._handlers
    call,          \* the last lookup made on the registry: its arguments and its return value
    _default_registry,  \* the module global _default_registry
    frames,        \* the call of get_default_registry each worker is in
    constructed,   \* the number of SmartOperatorRegistry instances constructed
    assigned       \* the registries given to set_default_registry, in order

vars == <<_activities, _indexing, _watching, _spawning, _changing, _webhooks, call,
          _default_registry, frames, constructed, assigned>>

\* The default registry of the process and its callers.
default_registry_state == <<_default_registry, frames, constructed, assigned>>

registries == <<_activities, _indexing, _watching, _spawning, _changing, _webhooks>>

(***************************************************************************)
(* Python values                                                           *)
(***************************************************************************)
None == "None"

PRESENT == "PRESENT"

ABSENT == "ABSENT"

\* _UNSET.token, the "absent" marker of the field resolution.
_UNSET == "_UNSET"

NoCall == [op |-> "none"]

\* The elements of a sequence, as a set.
Range(s) == {s[i] : i \in 1..Len(s)}

(***************************************************************************)
(* _deduplicated: the first handler of every (id(handler.fn), handler.id)  *)
(* key, in the order of the source.  seen_ids is the loop's set of keys.   *)
(***************************************************************************)
\* The key without the callable: handlers of one id are duplicates.
dedup_key_id_only(handler) == <<handler.id>>

\* key = (id(handler.fn), handler.id)
dedup_key(handler) == <<handler.fn, handler.id>>

RECURSIVE _deduplicated_loop(_, _, _)
_deduplicated_loop(src, seen_ids, out) ==
    IF src = <<>> THEN out
    ELSE IF dedup_key(Head(src)) \in seen_ids
         THEN _deduplicated_loop(Tail(src), seen_ids, out)
         ELSE _deduplicated_loop(Tail(src), seen_ids \cup {dedup_key(Head(src))},
                                 Append(out, Head(src)))

_deduplicated(src) == _deduplicated_loop(src, {}, <<>>)

(***************************************************************************)
(* ActivityRegistry                                                        *)
(***************************************************************************)
\* The condition of the first loop.  Python's "and" binds tighter than "or".
activity_regular(handler, activity) ==
    handler.activity = None
    \/ (handler.activity = activity /\ ~handler._fallback)

\* The condition of the second loop.
activity_fallback(handler, activity) ==
    handler.activity = None
    \/ (handler.activity = activity /\ handler._fallback)

ActivityRegistry_iter_handlers(_handlers, activity) ==
    LET regular == SelectSeq(_handlers, LAMBDA h: activity_regular(h, activity))
        found == regular # <<>>
    IN  IF ~found
        THEN regular \o SelectSeq(_handlers, LAMBDA h: activity_fallback(h, activity))
        ELSE regular

ActivityRegistry_get_handlers(_handlers, activity) ==
    _deduplicated(ActivityRegistry_iter_handlers(_handlers, activity))

(***************************************************************************)
(* Callables given as filter criteria.  callable(v) is Python's            *)
(* callable(v); Call(c, x) is the call of a label, annotation or field     *)
(* callable on the value x, CallWhen(c, cause) the call of handler.when.   *)
(* The callables are pure and read nothing but their first argument.       *)
(***************************************************************************)
Callables == {"fn:is_prod", "fn:is_none", "fn:is_unset", "fn:is_1", "fn:always", "fn:never"}

callable(v) == v \in Callables

Call(c, x) ==
    CASE c = "fn:is_prod" -> x = "prod"
      [] c = "fn:is_none" -> x = None
      [] c = "fn:is_unset" -> x = _UNSET
      [] c = "fn:is_1" -> x = "1"
      [] c = "fn:always" -> TRUE
      [] c = "fn:never" -> FALSE

CallWhen(c, cause) == Call(c, None)

\* dict.get(key, default)
Get(d, k, default) == IF k \in DOMAIN d THEN d[k] ELSE default

\* dicts.resolve(d, field, default): the value at the path, or the default
\* when a key of the path is missing.
RECURSIVE resolve(_, _, _)
resolve(d, field, default) ==
    IF field = <<>> THEN d
    ELSE IF Head(field) \in DOMAIN d
         THEN resolve(d[Head(field)], Tail(field), default)
         ELSE default

\* references.Selector.check(resource): "*" selects every resource.
selector_check(selector, resource) == selector = "*" \/ selector = resource

(***************************************************************************)
(* The handler and cause records, with the defaults of their fields: a     *)
(* handler that filters nothing, a cause about an empty body.              *)
(***************************************************************************)
ResourceHandler(cls, id, fn) ==
    [cls |-> cls, id |-> id, fn |-> fn, selector |-> "pods",
     labels |-> <<>>, annotations |-> <<>>, field |-> <<>>, value |-> None,
     when |-> None]

SpawningHandler(id, fn) ==
    [cls |-> "SpawningHandler", id |-> id, fn |-> fn, selector |-> "pods",
     labels |-> <<>>, annotations |-> <<>>, field |-> <<>>, value |-> None,
     when |-> None, requires_finalizer |-> FALSE]

ChangingHandler(id, fn) ==
    [cls |-> "ChangingHandler", id |-> id, fn |-> fn, selector |-> "pods",
     labels |-> <<>>, annotations |-> <<>>, field |-> <<>>, value |-> None,
     when |-> None, reason |-> None, initial |-> FALSE, deleted |-> FALSE,
     requires_finalizer |-> FALSE, field_needs_change |-> FALSE,
     old |-> None, new |-> None]

WebhookHandler(id, fn) ==
    [cls |-> "WebhookHandler", id |-> id, fn |-> fn, selector |-> "pods",
     labels |-> <<>>, annotations |-> <<>>, field |-> <<>>, value |-> None,
     when |-> None, reason |-> None, operations |-> {}, subresource |-> None]

ResourceCause(cls, resource) ==
    [cls |-> cls, resource |-> resource, body |-> <<>>]

ChangingCause(resource) ==
    [cls |-> "ChangingCause", resource |-> resource, body |-> <<>>,
     old |-> <<>>, new |-> <<>>, reason |-> "create",
     initial |-> FALSE, deleted |-> FALSE]

WebhookCause(resource) ==
    [cls |-> "WebhookCause", resource |-> resource, body |-> <<>>,
     reason |-> None, webhook |-> None, operation |-> "UPDATE",
     subresource |-> None]

(***************************************************************************)
(* The predicates of prematch and match.  A handler's labels, annotations  *)
(* and field are read only for their truth value before use: None and the *)
(* empty mapping (the empty path) are both written <<>>.  The boolean      *)
(* flags (initial, deleted, requires_finalizer, field_needs_change) are    *)
(* read only for their truth value: None is written FALSE.                 *)
(***************************************************************************)
_matches_resource(handler, resource) ==
    handler.selector = None \/ selector_check(handler.selector, resource)

_matches_subresource(handler, cause) ==
    IF handler.cls # "WebhookHandler" THEN TRUE
    ELSE IF cause.cls # "WebhookCause" THEN TRUE
    ELSE handler.subresource = "*" \/ handler.subresource = cause.subresource

\* _matches_metadata_item where a filter value passes on a missing key.
_matches_metadata_item_missing_passes(key, value, content) ==
    IF value = ABSENT /\ key \notin DOMAIN content THEN TRUE
    ELSE IF value = PRESENT /\ key \in DOMAIN content THEN TRUE
    ELSE IF callable(value) THEN Call(value, Get(content, key, None))
    ELSE IF key \notin DOMAIN content THEN TRUE
    ELSE IF value # content[key] THEN FALSE
    ELSE TRUE

\* One turn of the loop of _matches_metadata: TRUE for "continue", FALSE for
\* "return False".
_matches_metadata_item(key, value, content) ==
    IF value = ABSENT /\ key \notin DOMAIN content THEN TRUE
    ELSE IF value = PRESENT /\ key \in DOMAIN content THEN TRUE
    ELSE IF callable(value) THEN Call(value, Get(content, key, None))
    ELSE IF key \notin DOMAIN content THEN FALSE
    ELSE IF value # content[key] THEN FALSE
    ELSE TRUE

\* The loop returns False at the first failing item and True after the last.
_matches_metadata(pattern, content) ==
    \A key \in DOMAIN pattern : _matches_metadata_item(key, pattern[key], content)

_matches_labels(handler, cause) ==
    handler.labels = <<>>
    \/ _matches_metadata(handler.labels,
                         Get(Get(cause.body, "metadata", <<>>), "labels", <<>>))

_matches_annotations(handler, cause) ==
    handler.annotations = <<>>
    \/ _matches_metadata(handler.annotations,
                         Get(Get(cause.body, "metadata", <<>>), "annotations", <<>>))

\* The values the field-value criterion is tried on: [new, old] or [val].
field_values(handler, cause) ==
    IF cause.cls = "ChangingCause"
    THEN {resolve(cause.new, handler.field, _UNSET), resolve(cause.old, handler.field, _UNSET)}
    ELSE {resolve(cause.body, handler.field, _UNSET)}

_matches_field_values(handler, cause) ==
    IF handler.field = <<>> THEN TRUE
    ELSE LET absent == _UNSET
             values == field_values(handler, cause)
         IN  \/ (handler.value = None /\ \E value \in values : value # absent)
             \/ (handler.value = PRESENT /\ \E value \in values : value # absent)
             \/ (handler.value = ABSENT /\ \E value \in values : value = absent)
             \/ (callable(handler.value) /\ \E value \in values : Call(handler.value, value))
             \/ (\E value \in values : handler.value = value)

\* field_change_criterion with None read as in the field-value criterion: it
\* asks for a value that is not absent.
field_change_criterion_none_is_present(criterion, resolved) ==
    LET absent == _UNSET
    IN  \/ (criterion = None /\ resolved # absent)
        \/ (criterion = ABSENT /\ resolved = absent)
        \/ (criterion = PRESENT /\ resolved # absent)
        \/ (callable(criterion) /\ Call(criterion, resolved))
        \/ criterion = resolved

\* One of the two criteria (handler.old on old, handler.new on new) of
\* _matches_field_changes.
field_change_criterion(criterion, resolved) ==
    LET absent == _UNSET
    IN  \/ criterion = None
        \/ (criterion = ABSENT /\ resolved = absent)
        \/ (criterion = PRESENT /\ resolved # absent)
        \/ (callable(criterion) /\ Call(criterion, resolved))
        \/ criterion = resolved

\* _matches_field_changes without the test of field_needs_change.
_matches_field_changes_ungated(handler, cause) ==
    IF handler.cls # "ChangingHandler" THEN TRUE
    ELSE IF cause.cls # "ChangingCause" THEN TRUE
    ELSE IF handler.field = <<>> THEN TRUE
    ELSE LET old == resolve(cause.old, handler.field, _UNSET)
             new == resolve(cause.new, handler.field, _UNSET)
         IN  /\ field_change_criterion(handler.old, old)
             /\ field_change_criterion(handler.new, new)

_matches_field_changes(handler, cause) ==
    IF handler.cls # "ChangingHandler" THEN TRUE
    ELSE IF cause.cls # "ChangingCause" THEN TRUE
    ELSE IF handler.field = <<>> THEN TRUE
    ELSE LET old == resolve(cause.old, handler.field, _UNSET)
             new == resolve(cause.new, handler.field, _UNSET)
         IN  /\ (~handler.field_needs_change \/ old # new)
             /\ field_change_criterion(handler.old, old)
             /\ field_change_criterion(handler.new, new)

_matches_filter_callback(handler, cause) ==
    IF handler.when = None THEN TRUE
    ELSE CallWhen(handler.when, cause)

prematch(handler, cause) ==
    /\ _matches_resource(handler, cause.resource)
    /\ _matches_subresource(handler, cause)
    /\ _matches_labels(handler, cause)
    /\ _matches_annotations(handler, cause)
    /\ _matches_field_values(handler, cause)
    /\ _matches_filter_callback(handler, cause)

match(handler, cause) ==
    /\ _matches_resource(handler, cause.resource)
    /\ _matches_subresource(handler, cause)
    /\ _matches_labels(handler, cause)
    /\ _matches_annotations(handler, cause)
    /\ _matches_field_values(handler, cause)
    /\ _matches_field_changes(handler, cause)
    /\ _matches_filter_callback(handler, cause)

(***************************************************************************)
(* The resource registries                                                 *)
(***************************************************************************)
ChangingRegistry_get_resource_handlers(_handlers, resource) ==
    _deduplicated(SelectSeq(_handlers, LAMBDA h: _matches_resource(h, resource)))

\* IndexingRegistry_iter_handlers without the test of the excluded ids.
IndexingRegistry_iter_handlers_none_excluded(_handlers, cause, excluded) ==
    SelectSeq(_handlers, LAMBDA handler: match(handler, cause))

IndexingRegistry_iter_handlers(_handlers, cause, excluded) ==
    SelectSeq(_handlers, LAMBDA handler:
        handler.id \notin excluded /\ match(handler, cause))

WatchingRegistry_iter_handlers(_handlers, cause, excluded) ==
    SelectSeq(_handlers, LAMBDA handler:
        handler.id \notin excluded /\ match(handler, cause))

SpawningRegistry_iter_handlers(_handlers, cause, excluded) ==
    SelectSeq(_handlers, LAMBDA handler:
        handler.id \notin excluded /\ match(handler, cause))

RECURSIVE SpawningRegistry_requires_finalizer(_, _, _)
SpawningRegistry_requires_finalizer(_handlers, cause, excluded) ==
    IF _handlers = <<>> THEN FALSE
    ELSE LET handler == Head(_handlers)
         IN  IF /\ handler.id \notin excluded
                /\ handler.requires_finalizer
                /\ match(handler, cause)
             THEN TRUE
             ELSE SpawningRegistry_requires_finalizer(Tail(_handlers), cause, excluded)

\* ChangingRegistry_yields without the test of the handler's deleted flag: no
\* initial handler is yielded for a resource under deletion.
ChangingRegistry_yields_no_deleted_flag(handler, cause, excluded) ==
    /\ handler.id \notin excluded
    /\ (handler.reason = None \/ handler.reason = cause.reason)
    /\ IF handler.initial /\ ~cause.initial THEN FALSE
       ELSE IF handler.initial /\ cause.deleted THEN FALSE
       ELSE match(handler, cause)

\* The body of the loop of ChangingRegistry.iter_handlers: is the handler yielded?
ChangingRegistry_yields(handler, cause, excluded) ==
    /\ handler.id \notin excluded
    /\ (handler.reason = None \/ handler.reason = cause.reason)
    /\ IF handler.initial /\ ~cause.initial THEN FALSE
       ELSE IF handler.initial /\ cause.deleted /\ ~handler.deleted THEN FALSE
       ELSE match(handler, cause)

ChangingRegistry_iter_handlers(_handlers, cause, excluded) ==
    SelectSeq(_handlers, LAMBDA handler: ChangingRegistry_yields(handler, cause, excluded))

\* ChangingRegistry_requires_finalizer with match in the place of prematch, as
\* in SpawningRegistry.
ChangingRegistry_requires_finalizer_by_match(_handlers, cause, excluded) ==
    SpawningRegistry_requires_finalizer(_handlers, cause, excluded)

RECURSIVE ChangingRegistry_requires_finalizer(_, _, _)
ChangingRegistry_requires_finalizer(_handlers, cause, excluded) ==
    IF _handlers = <<>> THEN FALSE
    ELSE LET handler == Head(_handlers)
         IN  IF /\ handler.id \notin excluded
                /\ handler.requires_finalizer
                /\ prematch(handler, cause)
             THEN TRUE
             ELSE ChangingRegistry_requires_finalizer(Tail(_handlers), cause, excluded)

\* WebhooksRegistry_yields with the reason test turned around: the handler's
\* reason, not the cause's, may be unset.
WebhooksRegistry_yields_handler_reason(handler, cause, excluded) ==
    /\ handler.id \notin excluded
    /\ (handler.reason = None \/ cause.reason = handler.reason)
    /\ (cause.webhook = None \/ cause.webhook = handler.id)
    /\ ( \/ handler.reason # "MUTATING"
         \/ cause.operation # "DELETE"
         \/ handler.operations = {"DELETE"} )
    /\ match(handler, cause)

\* WebhooksRegistry_yields with a deletion rule that accepts every set of
\* operations that holds DELETE.
WebhooksRegistry_yields_any_deletion(handler, cause, excluded) ==
    /\ handler.id \notin excluded
    /\ (cause.reason = None \/ cause.reason = handler.reason)
    /\ (cause.webhook = None \/ cause.webhook = handler.id)
    /\ ( \/ handler.reason # "MUTATING"
         \/ cause.operation # "DELETE"
         \/ "DELETE" \in handler.operations )
    /\ match(handler, cause)

\* The body of the loop of WebhooksRegistry.iter_handlers.  handler.operations
\* is read only as set(handler.operations or []): None is written {}.
WebhooksRegistry_yields(handler, cause, excluded) ==
    /\ handler.id \notin excluded
    /\ LET matching_reason == cause.reason = None \/ cause.reason = handler.reason
           matching_webhook == cause.webhook = None \/ cause.webhook = handler.id
       IN  /\ matching_reason /\ matching_webhook
           /\ LET non_mutating == handler.reason # "MUTATING"
                  non_deletion == cause.operation # "DELETE"
                  explicitly_for_deletion == handler.operations = {"DELETE"}
              IN  /\ (non_mutating \/ non_deletion \/ explicitly_for_deletion)
                  /\ match(handler, cause)

WebhooksRegistry_iter_handlers(_handlers, cause, excluded) ==
    SelectSeq(_handlers, LAMBDA handler: WebhooksRegistry_yields(handler, cause, excluded))

\* ResourceRegistry.get_handlers of the registry of the given category.
iter_handlers(category, _handlers, cause, excluded) ==
    CASE category = "indexing" -> IndexingRegistry_iter_handlers(_handlers, cause, excluded)
      [] category = "watching" -> WatchingRegistry_iter_handlers(_handlers, cause, excluded)
      [] category = "spawning" -> SpawningRegistry_iter_handlers(_handlers, cause, excluded)
      [] category = "changing" -> ChangingRegistry_iter_handlers(_handlers, cause, excluded)
      [] category = "webhooks" -> WebhooksRegistry_iter_handlers(_handlers, cause, excluded)

get_handlers(category, _handlers, cause, excluded) ==
    _deduplicated(iter_handlers(category, _handlers, cause, excluded))

(***************************************************************************)
(* Bounds and input domains of the activity registry                       *)
(***************************************************************************)
MaxActivityHandlers == 3

Activities == {"STARTUP", "AUTHENTICATION"}

ActivityHandlers ==
    [id : {"a", "b"}, fn : {"f"}, activity : {None} \cup Activities, _fallback : BOOLEAN]

(***************************************************************************)
(* The workers that ask for the default registry, each in a thread of its  *)
(* own, and the frame of a worker that is in no call and has made none.    *)
(***************************************************************************)
Workers == {"w1", "w2"}

NoFrame == [pc |-> "idle", registry |-> None, result |-> None, after |-> 0]

(***************************************************************************)
(* Init: OperatorRegistry.__init__ makes six empty registries; the module  *)
(* starts with no default registry.                                        *)
(***************************************************************************)
Init ==
    /\ _activities = <<>>
    /\ _indexing = <<>>
    /\ _watching = <<>>
    /\ _spawning = <<>>
    /\ _changing = <<>>
    /\ _webhooks = <<>>
    /\ call = NoCall
    /\ _default_registry = None
    /\ frames = [w \in Workers |-> NoFrame]
    /\ constructed = 0
    /\ assigned = <<>>

\* The number of handlers registered, over the six registries.
TotalHandlers ==
    Len(_activities) + Len(_indexing) + Len(_watching) + Len(_spawning)
        + Len(_changing) + Len(_webhooks)

(***************************************************************************)
(* The operations.  The registries have one caller at a time: an operation *)
(* starts when no result is pending (call = NoCall), a lookup leaves its   *)
(* arguments and its return value in call, and Return hands the result to  *)
(* the caller.  bound is the number of handlers the model registers.       *)
(***************************************************************************)
\* GenericRegistry.append on the activity registry.
AppendActivity(handler, bound) ==
    /\ call = NoCall
    /\ TotalHandlers < bound
    /\ _activities' = Append(_activities, handler)
    /\ UNCHANGED <<_indexing, _watching, _spawning, _changing, _webhooks, call,
                   default_registry_state>>

\* ActivityRegistry.get_handlers(activity).
GetActivityHandlers(activity) ==
    /\ call = NoCall
    /\ call' = [op |-> "activity.get_handlers",
                activity |-> activity,
                yielded |-> ActivityRegistry_iter_handlers(_activities, activity),
                result |-> ActivityRegistry_get_handlers(_activities, activity)]
    /\ UNCHANGED <<registries, default_registry_state>>

\* The caller takes the result of its lookup.
Return ==
    /\ call.op # "none"
    /\ call' = NoCall
    /\ UNCHANGED <<registries, default_registry_state>>

NextActivity ==
    \/ \E handler \in ActivityHandlers : AppendActivity(handler, MaxActivityHandlers)
    \/ \E activity \in Activities : GetActivityHandlers(activity)
    \/ Return

SpecActivity == Init /\ [][NextActivity]_vars

(***************************************************************************)
(* The operations of the resource registries                               *)
(***************************************************************************)
\* The handlers of the registry of a category.
registry_of(category) ==
    CASE category = "indexing" -> _indexing
      [] category = "watching" -> _watching
      [] category = "spawning" -> _spawning
      [] category = "changing" -> _changing
      [] category = "webhooks" -> _webhooks

\* GenericRegistry.append on each of the resource registries.
AppendIndexing(handler, bound) ==
    /\ call = NoCall
    /\ TotalHandlers < bound
    /\ _indexing' = Append(_indexing, handler)
    /\ UNCHANGED <<_activities, _watching, _spawning, _changing, _webhooks, call,
                   default_registry_state>>

AppendWatching(handler, bound) ==
    /\ call = NoCall
    /\ TotalHandlers < bound
    /\ _watching' = Append(_watching, handler)
    /\ UNCHANGED <<_activities, _indexing, _spawning, _changing, _webhooks, call,
                   default_registry_state>>

AppendSpawning(handler, bound) ==
    /\ call = NoCall
    /\ TotalHandlers < bound
    /\ _spawning' = Append(_spawning, handler)
    /\ UNCHANGED <<_activities, _indexing, _watching, _changing, _webhooks, call,
                   default_registry_state>>

AppendChanging(handler, bound) ==
    /\ call = NoCall
    /\ TotalHandlers < bound
    /\ _changing' = Append(_changing, handler)
    /\ UNCHANGED <<_activities, _indexing, _watching, _spawning, _webhooks, call,
                   default_registry_state>>

AppendWebhook(handler, bound) ==
    /\ call = NoCall
    /\ TotalHandlers < bound
    /\ _webhooks' = Append(_webhooks, handler)
    /\ UNCHANGED <<_activities, _indexing, _watching, _spawning, _changing, call,
                   default_registry_state>>

\* ResourceRegistry.get_handlers(cause, excluded) on the registry of a category.
GetHandlers(category, cause, excluded) ==
    /\ call = NoCall
    /\ call' = [op |-> "get_handlers",
                category |-> category,
                cause |-> cause,
                excluded |-> excluded,
                yielded |-> iter_handlers(category, registry_of(category), cause, excluded),
                result |-> get_handlers(category, registry_of(category), cause, excluded)]
    /\ UNCHANGED <<registries, default_registry_state>>

\* ChangingRegistry.get_resource_handlers(resource).
GetResourceHandlers(resource) ==
    /\ call = NoCall
    /\ call' = [op |-> "get_resource_handlers",
                resource |-> resource,
                yielded |-> SelectSeq(_changing, LAMBDA h: _matches_resource(h, resource)),
                result |-> ChangingRegistry_get_resource_handlers(_changing, resource)]
    /\ UNCHANGED <<registries, default_registry_state>>

\* SpawningRegistry.requires_finalizer and ChangingRegistry.requires_finalizer.
requires_finalizer(category, _handlers, cause, excluded) ==
    CASE category = "spawning" -> SpawningRegistry_requires_finalizer(_handlers, cause, excluded)
      [] category = "changing" -> ChangingRegistry_requires_finalizer(_handlers, cause, excluded)

RequiresFinalizer(category, cause, excluded) ==
    /\ call = NoCall
    /\ call' = [op |-> "requires_finalizer",
                category |-> category,
                cause |-> cause,
                excluded |-> excluded,
                result |-> requires_finalizer(category, registry_of(category), cause, excluded)]
    /\ UNCHANGED <<registries, default_registry_state>>

\* match(handler, cause) and prematch(handler, cause) on one handler and one
\* cause, with the verdicts of the predicates they are made of.
Match(handler, cause) ==
    /\ call = NoCall
    /\ call' = [op |-> "match",
                handler |-> handler,
                cause |-> cause,
                labels |-> _matches_labels(handler, cause),
                annotations |-> _matches_annotations(handler, cause),
                field_values |-> _matches_field_values(handler, cause),
                field_changes |-> _matches_field_changes(handler, cause),
                prematch |-> prematch(handler, cause),
                result |-> match(handler, cause)]
    /\ UNCHANGED <<registries, default_registry_state>>

(***************************************************************************)
(* The webhooks registry: bounds, inputs and specification                 *)
(***************************************************************************)
MaxWebhookHandlers == 2

\* The handlers appended: those of id "a" are for the resource itself, those of
\* id "b" for the resource or for its status subresource.
WebhookHandlers ==
    {h \in {[WebhookHandler(id, "f") EXCEPT !.reason = reason,
                                            !.operations = operations,
                                            !.subresource = subresource] :
                id \in {"a", "b"},
                reason \in {None, "VALIDATING", "MUTATING"},
                operations \in {{}, {"DELETE"}, {"DELETE", "UPDATE"}},
                subresource \in {None, "status"}} :
        h.subresource = None \/ h.id = "b"}

WebhookCauses ==
    {[WebhookCause("pods") EXCEPT !.reason = reason, !.webhook = webhook,
                                  !.operation = operation] :
        reason \in {None, "VALIDATING", "MUTATING"},
        webhook \in {None, "a"},
        operation \in {"UPDATE", "DELETE"}}

NextWebhooks ==
    \/ \E handler \in WebhookHandlers : AppendWebhook(handler, MaxWebhookHandlers)
    \/ \E cause \in WebhookCauses, excluded \in {{}, {"b"}} :
           /\ (cause.webhook = None \/ excluded = {})
           /\ GetHandlers("webhooks", cause, excluded)
    \/ Return

SpecWebhooks == Init /\ [][NextWebhooks]_vars

\* A get_handlers call on the webhooks registry has returned.
WebhookCall == call.op = "get_handlers" /\ call.category = "webhooks"

\* The pair that tells duplicates: the callable and the id of a handler.
pair(handler) == <<handler.fn, handler.id>>

\* No other handler of the registry has the handler's (callable, id) pair.
SoleOfKey(handler, _handlers) ==
    \A other \in Range(_handlers) : pair(other) = pair(handler) => other = handler

\* Some returned handler has the handler's (callable, id) pair.
KeyReturned(handler, result) ==
    \E other \in Range(result) : pair(other) = pair(handler)

\* No handler registered before the i-th one has its (callable, id) pair and
\* qualifies for the lookup.
FirstOfKey(i, _handlers, Qualifies(_)) ==
    \A j \in 1..(i - 1) :
        pair(_handlers[j]) = pair(_handlers[i]) => ~Qualifies(_handlers[j])

\* The rule of a lookup, deduplication included: only qualifying handlers are
\* returned; a qualifying handler has its (callable, id) pair in the result,
\* and is itself in the result unless a qualifying handler of the same pair
\* was registered before it.
ReturnsTheQualifying(_handlers, result, Qualifies(_)) ==
    \A i \in 1..Len(_handlers) :
        LET handler == _handlers[i]
        IN  /\ handler \in Range(result) => Qualifies(handler)
            /\ Qualifies(handler) =>
                   /\ KeyReturned(handler, result)
                   /\ FirstOfKey(i, _handlers, Qualifies) => handler \in Range(result)

(***************************************************************************)
(* C2 as stated.  A webhook handler is compatible with a cause exactly     *)
(* when the handler's reason is unset or equals cause.reason and           *)
(* cause.webhook is unset or equals the handler's id: a non-excluded       *)
(* handler with reason None that passes match() is returned for a cause of *)
(* any webhook type, and an incompatible handler is never returned.        *)
(* (The first half is stated for a handler that is the only one of its     *)
(* callable and id and is webhook-compatible, which favours the claim.)    *)
(***************************************************************************)
C2_claimed_compatible(handler, cause) ==
    /\ (handler.reason = None \/ handler.reason = cause.reason)
    /\ (cause.webhook = None \/ cause.webhook = handler.id)

C2_HandlerReasonCompatibility ==
    WebhookCall =>
        \A handler \in Range(_webhooks) :
            /\ ( /\ handler.reason = None
                 /\ handler.id \notin call.excluded
                 /\ (call.cause.webhook = None \/ call.cause.webhook = handler.id)
                 /\ match(handler, call.cause)
                 /\ SoleOfKey(handler, _webhooks) )
               => handler \in Range(call.result)
            /\ ~C2_claimed_compatible(handler, call.cause)
               => handler \notin Range(call.result)

(***************************************************************************)
(* C2 as amended.  A webhook handler is compatible with a cause exactly    *)
(* when cause.reason is unset or equals the handler's reason and           *)
(* cause.webhook is unset or equals the handler's id.  Only non-excluded,  *)
(* compatible handlers that pass the deletion rule and match() are         *)
(* returned; each of them has its (callable, id) pair in the result, and   *)
(* is itself in the result unless such a handler of the same pair was      *)
(* registered before it.  So a cause with reason None gets the handlers of *)
(* every reason, and a handler with reason None is returned only for a     *)
(* cause with reason None.                                                 *)
(***************************************************************************)
webhook_compatible(handler, cause) ==
    /\ (cause.reason = None \/ cause.reason = handler.reason)
    /\ (cause.webhook = None \/ cause.webhook = handler.id)

deletion_safe(handler, cause) ==
    ~(handler.reason = "MUTATING" /\ cause.operation = "DELETE")
    \/ handler.operations = {"DELETE"}

webhook_qualifies(handler, cause, excluded) ==
    /\ handler.id \notin excluded
    /\ webhook_compatible(handler, cause)
    /\ deletion_safe(handler, cause)
    /\ match(handler, cause)

C2_CauseReasonCompatibility ==
    WebhookCall =>
        /\ ReturnsTheQualifying(_webhooks, call.result,
                LAMBDA h: webhook_qualifies(h, call.cause, call.excluded))
        /\ \A handler \in Range(call.result) :
               handler.reason = None => call.cause.reason = None

\* A cause with no reason has got a mutating and a validating handler at once.
C2_Witness ==
    /\ WebhookCall
    /\ call.cause.reason = None
    /\ \E g, h \in Range(call.result) : g.reason = "MUTATING" /\ h.reason = "VALIDATING"

(***************************************************************************)
(* C3.  For a cause whose operation is DELETE, get_handlers returns no     *)
(* handler of the MUTATING type unless its operations are exactly          *)
(* {DELETE}; a mutating handler with operations {DELETE} that is returned  *)
(* for the same cause with another operation (that otherwise matches) is   *)
(* returned for the DELETE cause too.                                      *)
(***************************************************************************)
C3_DeletionSafety ==
    (WebhookCall /\ call.cause.operation = "DELETE") =>
        /\ \A handler \in Range(call.result) :
               handler.reason = "MUTATING" => handler.operations = {"DELETE"}
        /\ \A handler \in Range(_webhooks) :
               ( /\ handler.reason = "MUTATING"
                 /\ handler.operations = {"DELETE"}
                 /\ handler \in Range(get_handlers("webhooks", _webhooks,
                                      [call.cause EXCEPT !.operation = "UPDATE"],
                                      call.excluded)) )
               => handler \in Range(call.result)

\* A DELETE cause for which one mutating handler was left out and another,
\* declared for {DELETE} alone, was returned.
C3_Witness ==
    /\ WebhookCall
    /\ call.cause.operation = "DELETE"
    /\ \E g \in Range(_webhooks) :
           /\ g.reason = "MUTATING" /\ g.operations = {} /\ g.subresource = None
           /\ g.id \notin call.excluded
           /\ webhook_compatible(g, call.cause)
           /\ g \notin Range(call.result)
    /\ \E h \in Range(call.result) : h.reason = "MUTATING" /\ h.operations = {"DELETE"}

(***************************************************************************)
(* The changing registry and the initial handlers: bounds, inputs and      *)
(* specification                                                           *)
(***************************************************************************)
MaxChangingHandlers == 2

\* Handlers for any reason or for creation, initial (as on.resume registers
\* them) or not, marked for deletions or not; those of id "b" may carry a
\* when-callback that refuses every cause.
ChangingHandlers ==
    {h \in {[ChangingHandler(id, "f") EXCEPT !.reason = reason, !.initial = initial,
                                             !.deleted = deleted, !.when = when] :
                id \in {"a", "b"}, reason \in {None, "create"},
                initial \in BOOLEAN, deleted \in BOOLEAN,
                when \in {None, "fn:never"}} :
        h.when = None \/ h.id = "b"}

ChangingCauses ==
    {[ChangingCause("pods") EXCEPT !.reason = reason, !.initial = initial,
                                   !.deleted = deleted] :
        reason \in {"create", "delete"}, initial \in BOOLEAN, deleted \in BOOLEAN}

NextChanging ==
    \/ \E handler \in ChangingHandlers : AppendChanging(handler, MaxChangingHandlers)
    \/ \E cause \in ChangingCauses, excluded \in {{}, {"b"}} :
           GetHandlers("changing", cause, excluded)
    \/ Return

SpecChanging == Init /\ [][NextChanging]_vars

\* A get_handlers call on the changing registry has returned.
ChangingCall == call.op = "get_handlers" /\ call.category = "changing"

\* The two rules that skip an initial handler.
skipped_as_initial(handler, cause) ==
    \/ (handler.initial /\ ~cause.initial)
    \/ (handler.initial /\ cause.initial /\ cause.deleted /\ ~handler.deleted)

changing_qualifies(handler, cause, excluded) ==
    /\ handler.id \notin excluded
    /\ (handler.reason = None \/ handler.reason = cause.reason)
    /\ ~skipped_as_initial(handler, cause)
    /\ match(handler, cause)

(***************************************************************************)
(* C5 as stated.  ChangingRegistry.get_handlers never returns an initial   *)
(* handler for a non-initial cause, nor, for an initial cause with deleted *)
(* set, an initial handler whose deleted flag is not set; and a handler    *)
(* that is not excluded, is reason-compatible, is not skipped by the two   *)
(* rules and passes match() is always returned.                            *)
(***************************************************************************)
C5_InitialRuleAlwaysReturned ==
    ChangingCall =>
        \A handler \in Range(_changing) :
            /\ (handler.initial /\ ~call.cause.initial)
                   => handler \notin Range(call.result)
            /\ (handler.initial /\ call.cause.initial /\ call.cause.deleted
                    /\ ~handler.deleted)
                   => handler \notin Range(call.result)
            /\ changing_qualifies(handler, call.cause, call.excluded)
                   => handler \in Range(call.result)

(***************************************************************************)
(* C5 as amended.  The two exclusions as stated; and a handler that is not *)
(* excluded, is reason-compatible, is not skipped and passes match() is    *)
(* returned unless such a handler with the same callable and the same id   *)
(* was registered before it, which is then returned in its place; no other *)
(* handler is returned.                                                    *)
(***************************************************************************)
C5_InitialRule ==
    ChangingCall =>
        /\ \A handler \in Range(_changing) :
               /\ (handler.initial /\ ~call.cause.initial)
                      => handler \notin Range(call.result)
               /\ (handler.initial /\ call.cause.initial /\ call.cause.deleted
                       /\ ~handler.deleted)
                      => handler \notin Range(call.result)
        /\ ReturnsTheQualifying(_changing, call.result,
                LAMBDA h: changing_qualifies(h, call.cause, call.excluded))

\* An initial cause of a resource under deletion: an initial handler marked
\* for deletions was returned, another that is not marked was left out.
C5_Witness ==
    /\ ChangingCall
    /\ call.cause.initial /\ call.cause.deleted
    /\ \E h \in Range(call.result) : h.initial /\ h.deleted
    /\ \E g \in Range(_changing) :
           /\ g.initial /\ ~g.deleted /\ g.when = None
           /\ g.id \notin call.excluded
           /\ g \notin Range(call.result)

(***************************************************************************)
(* The field filters of match(): inputs and specification                  *)
(***************************************************************************)
\* The criteria a handler may give for old, new and value.
Criteria == {None, ABSENT, PRESENT, "1", "fn:is_1", "fn:is_unset"}

\* Field handlers on spec.x or on no field, as on.update and on.field
\* register them, and a watching handler (on.event) on the same fields.
FieldHandlers ==
    {[ChangingHandler("a", "f") EXCEPT !.field = field,
                                       !.field_needs_change = field_needs_change,
                                       !.old = old, !.new = new] :
        field \in {<<>>, <<"spec", "x">>}, field_needs_change \in BOOLEAN,
        old \in Criteria, new \in Criteria}
    \cup {[ResourceHandler("WatchingHandler", "a", "f") EXCEPT !.field = field] :
        field \in {<<>>, <<"spec", "x">>}}

\* A body with no spec, with a spec that has no x, and with spec.x set.
Bodies == {<<>>, [spec |-> <<>>], [spec |-> [x |-> "1"]], [spec |-> [x |-> "2"]]}

FieldCauses ==
    {[ChangingCause("pods") EXCEPT !.old = old, !.new = new, !.body = new,
                                   !.reason = "update"] :
        old \in Bodies, new \in Bodies}
    \cup {[ResourceCause("WatchingCause", "pods") EXCEPT !.body = body] : body \in Bodies}

NextFields ==
    \/ \E handler \in FieldHandlers, cause \in FieldCauses : Match(handler, cause)
    \/ Return

SpecFields == Init /\ [][NextFields]_vars

\* match() has returned for a ChangingHandler with a field and a ChangingCause.
FieldChangeCall ==
    /\ call.op = "match"
    /\ call.handler.cls = "ChangingHandler"
    /\ call.cause.cls = "ChangingCause"
    /\ call.handler.field # <<>>

\* The values at the handler's field in cause.old and in cause.new.
ResolvedOld == resolve(call.cause.old, call.handler.field, _UNSET)

ResolvedNew == resolve(call.cause.new, call.handler.field, _UNSET)

\* A criterion of a field change on the value it is about, in the words of
\* the amended C7: None asks nothing.
C7_criterion(criterion, resolved) ==
    CASE criterion = None -> TRUE
      [] criterion = PRESENT -> resolved # _UNSET
      [] criterion = ABSENT -> resolved = _UNSET
      [] callable(criterion) -> Call(criterion, resolved)
      [] OTHER -> criterion = resolved

\* The same in the words of C7 as stated, the semantics of the field-value
\* criterion: None asks for a value that is not absent, as PRESENT does.
C7_claimed_criterion(criterion, resolved) ==
    CASE criterion = None -> resolved # _UNSET
      [] criterion = PRESENT -> resolved # _UNSET
      [] criterion = ABSENT -> resolved = _UNSET
      [] callable(criterion) -> Call(criterion, resolved)
      [] OTHER -> criterion = resolved

(***************************************************************************)
(* C6.  Field-change gating.  For a ChangingHandler with a field and       *)
(* field_needs_change against a ChangingCause, match() is false whenever   *)
(* the values at the field in old and new are equal (absent in both        *)
(* included); when they differ the verdict is that of the same handler     *)
(* without field_needs_change.  Without field_needs_change the verdict is  *)
(* that of the two criteria alone, so equal values do not prevent a match. *)
(* For another class of handler or of cause, or without a field, the       *)
(* field-change predicate is true.                                         *)
(***************************************************************************)
C6_FieldChangeGating ==
    call.op = "match" =>
        IF FieldChangeCall
        THEN /\ (call.handler.field_needs_change /\ ResolvedOld = ResolvedNew)
                    => (~call.field_changes /\ ~call.result)
             /\ (call.handler.field_needs_change /\ ResolvedOld # ResolvedNew)
                    => call.field_changes =
                           _matches_field_changes(
                               [call.handler EXCEPT !.field_needs_change = FALSE],
                               call.cause)
             /\ ~call.handler.field_needs_change
                    => call.field_changes =
                           ( /\ C7_criterion(call.handler.old, ResolvedOld)
                             /\ C7_criterion(call.handler.new, ResolvedNew) )
        ELSE call.field_changes

\* An unchanged, present field: everything of match() but the gate passes.
C6_Witness ==
    /\ FieldChangeCall
    /\ call.handler.field_needs_change
    /\ call.handler.old = None /\ call.handler.new = None
    /\ ResolvedOld = "1" /\ ResolvedNew = "1"
    /\ call.prematch /\ ~call.field_changes /\ ~call.result

(***************************************************************************)
(* C7 as stated.  The field-change match holds only if the handler's old   *)
(* criterion holds of the resolved old value and its new criterion of the  *)
(* resolved new value, with the semantics of the field-value criterion:    *)
(* None and PRESENT ask for a value that is not absent, ABSENT for an      *)
(* absent one, a callable for a truthy result, anything else for equality. *)
(***************************************************************************)
C7_SameSemanticsAsFieldValue ==
    FieldChangeCall =>
        ( call.field_changes =>
            /\ C7_claimed_criterion(call.handler.old, ResolvedOld)
            /\ C7_claimed_criterion(call.handler.new, ResolvedNew) )

(***************************************************************************)
(* C7 as amended.  The field-change match holds exactly when the gate of   *)
(* C6 is open and both criteria hold, where a criterion of None always     *)
(* holds, PRESENT asks for a value that is not absent, ABSENT for an       *)
(* absent one, a callable for a truthy result, anything else for equality. *)
(***************************************************************************)
C7_FieldChangeCriteria ==
    FieldChangeCall =>
        call.field_changes =
            ( /\ (~call.handler.field_needs_change \/ ResolvedOld # ResolvedNew)
              /\ C7_criterion(call.handler.old, ResolvedOld)
              /\ C7_criterion(call.handler.new, ResolvedNew) )

\* The field appears: absent in old, set in new, and the handler's old
\* criterion is None.  The field-change match holds.
C7_Witness ==
    /\ FieldChangeCall
    /\ call.handler.old = None /\ call.handler.new = "1"
    /\ ResolvedOld = _UNSET /\ ResolvedNew = "1"
    /\ call.field_changes /\ call.result

(***************************************************************************)
(* The label and annotation filters: bounds, inputs and specification      *)
(***************************************************************************)
MaxMetaHandlers == 2

LabelPatterns ==
    {<<>>, [env |-> "prod"], [env |-> ABSENT], [env |-> PRESENT],
     [env |-> "fn:is_prod"], [env |-> "fn:is_none"],
     [env |-> "prod", tier |-> PRESENT], [env |-> ABSENT, tier |-> "web"]}

AnnotationPatterns == {<<>>, [note |-> PRESENT], [note |-> "fn:is_none"]}

\* Handlers that filter by labels and annotations.
MetaHandlers ==
    {[ChangingHandler("a", "f") EXCEPT !.labels = labels, !.annotations = annotations] :
        labels \in LabelPatterns, annotations \in AnnotationPatterns}

\* Bodies with no metadata, with metadata that has no labels or no
\* annotations, and with labels and annotations.
MetaBodies ==
    {<<>>, [metadata |-> <<>>],
     [metadata |-> [labels |-> <<>>]],
     [metadata |-> [labels |-> [env |-> "prod"]]],
     [metadata |-> [labels |-> [env |-> "dev"]]],
     [metadata |-> [labels |-> [env |-> "prod", tier |-> "web"]]],
     [metadata |-> [annotations |-> [note |-> "x"]]],
     [metadata |-> [labels |-> [env |-> "prod"], annotations |-> [note |-> "x"]]]}

MetaCauses ==
    {[ChangingCause("pods") EXCEPT !.body = body, !.new = body, !.reason = reason] :
        body \in MetaBodies, reason \in {"create", "update"}}

\* The handlers of the scenario: A filters by the label env=prod and has no
\* reason, B is for creations and has no labels.
HandlerA == [ChangingHandler("A", "fn_a") EXCEPT !.labels = [env |-> "prod"]]

HandlerB == [ChangingHandler("B", "fn_b") EXCEPT !.reason = "create"]

\* The handlers registered: A, B and their variants with the reason or the
\* labels of the other.
RegisteredMetaHandlers ==
    {[h EXCEPT !.labels = labels, !.reason = reason] :
        h \in {HandlerA, HandlerB}, labels \in {<<>>, [env |-> "prod"]},
        reason \in {None, "create"}}

NextMeta ==
    \/ \E handler \in RegisteredMetaHandlers : AppendChanging(handler, MaxMetaHandlers)
    \/ \E cause \in MetaCauses : GetHandlers("changing", cause, {})
    \/ \E handler \in MetaHandlers, cause \in MetaCauses : Match(handler, cause)
    \/ Return

SpecMeta == Init /\ [][NextMeta]_vars

\* metadata.labels and metadata.annotations of a body; a missing metadata or a
\* missing map counts as empty.
MetadataMap(body, name) ==
    IF "metadata" \in DOMAIN body /\ name \in DOMAIN body["metadata"]
    THEN body["metadata"][name]
    ELSE <<>>

\* The rule of one filter key.
MetaKeyPasses(key, value, content) ==
    CASE value = ABSENT -> key \notin DOMAIN content
      [] value = PRESENT -> key \in DOMAIN content
      [] callable(value) ->
            Call(value, IF key \in DOMAIN content THEN content[key] ELSE None)
      [] OTHER -> key \in DOMAIN content /\ content[key] = value

MetaRule(pattern, content) ==
    \A key \in DOMAIN pattern : MetaKeyPasses(key, pattern[key], content)

(***************************************************************************)
(* C8.  Label and annotation matching is the conjunction, over the keys of *)
(* the handler's filter, of: an ABSENT key is missing, a PRESENT key       *)
(* exists, a callable is truthy on the value (None when missing), any      *)
(* other filter value is the value of an existing key; an empty filter     *)
(* matches.  With A (labels env=prod, no reason) registered before B       *)
(* (reason create, no labels), a create cause with the labels env=prod     *)
(* gets [A, B] and one with env=dev gets [B].                              *)
(***************************************************************************)
C8_MetadataMatching ==
    /\ call.op = "match" =>
          /\ call.labels = MetaRule(call.handler.labels,
                                    MetadataMap(call.cause.body, "labels"))
          /\ call.annotations = MetaRule(call.handler.annotations,
                                         MetadataMap(call.cause.body, "annotations"))
          /\ call.handler.labels = <<>> => call.labels
          /\ call.handler.annotations = <<>> => call.annotations
          /\ call.result = (call.labels /\ call.annotations)
    /\ ( /\ ChangingCall
         /\ _changing = <<HandlerA, HandlerB>>
         /\ call.cause.reason = "create" )
       => /\ MetadataMap(call.cause.body, "labels") = [env |-> "prod"]
                => call.result = <<HandlerA, HandlerB>>
          /\ MetadataMap(call.cause.body, "labels") = [env |-> "dev"]
                => call.result = <<HandlerB>>

\* The scenario: a create cause with env=dev has got B and not A.
C8_Witness ==
    /\ ChangingCall
    /\ _changing = <<HandlerA, HandlerB>>
    /\ call.cause.reason = "create"
    /\ MetadataMap(call.cause.body, "labels") = [env |-> "dev"]
    /\ call.result = <<HandlerB>>

(***************************************************************************)
(* Deduplication: bounds, inputs and specification                         *)
(***************************************************************************)
MaxDedupHandlers == 3

\* Two ids and two callables, registered for pods or for every resource.
DedupHandlers ==
    {[ChangingHandler(id, fn) EXCEPT !.selector = selector] :
        id \in {"a", "b"}, fn \in {"f", "g"}, selector \in {"pods", "*"}}

DedupActivityHandlers ==
    [id : {"a", "b"}, fn : {"f", "g"}, activity : {None}, _fallback : {FALSE}]

DedupCauses == {ChangingCause(resource) : resource \in {"pods", "jobs"}}

NextDedup ==
    \/ \E handler \in DedupHandlers : AppendChanging(handler, MaxDedupHandlers)
    \/ \E handler \in DedupActivityHandlers : AppendActivity(handler, MaxDedupHandlers)
    \/ \E cause \in DedupCauses : GetHandlers("changing", cause, {})
    \/ \E cause \in DedupCauses : GetResourceHandlers(cause.resource)
    \/ GetActivityHandlers("STARTUP")
    \/ Return

SpecDedup == Init /\ [][NextDedup]_vars

\* A lookup has returned: call.yielded went through _deduplicated, call.result
\* came out.
DedupCall == call.op \in {"get_handlers", "get_resource_handlers", "activity.get_handlers"}

\* The places of a sequence of handlers where a (callable, id) pair occurs
\* for the first time.
FirstOccurrences(src) ==
    {i \in 1..Len(src) : \A j \in 1..(i - 1) : pair(src[j]) # pair(src[i])}

(***************************************************************************)
(* C4.  _deduplicated, and so every get_handlers and get_resource_handlers *)
(* result, is the sequence of the first occurrences of the (callable, id)  *)
(* pairs of its input, in the order of the input: no two handlers of the   *)
(* output have the same pair, every input handler has an output handler of *)
(* its pair, and two input handlers that differ in the callable or in the  *)
(* id are both represented.                                                *)
(***************************************************************************)
C4_Deduplicated ==
    DedupCall =>
        LET src == call.yielded
            out == call.result
            first == FirstOccurrences(src)
        IN  /\ Len(out) = Cardinality(first)
            /\ \A k \in 1..Len(out) :
                   \E i \in first :
                       /\ Cardinality({j \in first : j < i}) = k - 1
                       /\ out[k] = src[i]
            /\ \A k1, k2 \in 1..Len(out) : k1 # k2 => pair(out[k1]) # pair(out[k2])
            /\ \A i \in 1..Len(src) : \E k \in 1..Len(out) : pair(out[k]) = pair(src[i])
            /\ \A i1, i2 \in 1..Len(src) :
                   pair(src[i1]) # pair(src[i2])
                       => \E k1, k2 \in 1..Len(out) :
                              /\ k1 # k2
                              /\ pair(out[k1]) = pair(src[i1])
                              /\ pair(out[k2]) = pair(src[i2])

\* Three matched handlers: the third is another registration of the first
\* one's callable and id and is dropped; the second has the first one's id and
\* another callable and is kept.
C4_Witness ==
    /\ call.op = "get_resource_handlers"
    /\ Len(call.yielded) = 3
    /\ pair(call.yielded[1]) = pair(call.yielded[3])
    /\ call.yielded[1] # call.yielded[3]
    /\ call.yielded[2].id = call.yielded[1].id
    /\ call.yielded[2].fn # call.yielded[1].fn
    /\ call.result = <<call.yielded[1], call.yielded[2]>>

(***************************************************************************)
(* requires_finalizer: bounds, inputs and specification                    *)
(***************************************************************************)
MaxFinalizerHandlers == 2

\* The kinds of changing handlers: with no filter, on a field that must
\* change, on a field going from "1" to "2", for deletions only, initial.
FinalizerProfiles ==
    {ChangingHandler("a", "f"),
     [ChangingHandler("a", "f") EXCEPT !.field = <<"spec", "x">>,
                                       !.field_needs_change = TRUE],
     [ChangingHandler("a", "f") EXCEPT !.field = <<"spec", "x">>,
                                       !.old = "1", !.new = "2"],
     [ChangingHandler("a", "f") EXCEPT !.reason = "delete"],
     [ChangingHandler("a", "f") EXCEPT !.initial = TRUE]}

FinalizerChangingHandlers ==
    {[h EXCEPT !.id = id, !.requires_finalizer = flag] :
        h \in FinalizerProfiles, id \in {"a", "b"}, flag \in BOOLEAN}

\* Daemons and timers, on any body or on the bodies that have spec.x.
FinalizerSpawningHandlers ==
    {[SpawningHandler(id, "f") EXCEPT !.requires_finalizer = flag,
                                      !.field = field] :
        id \in {"a", "b"}, flag \in BOOLEAN,
        field \in {<<>>, <<"spec", "x">>}}

FinalizerChangingCauses ==
    {[ChangingCause("pods") EXCEPT !.old = old, !.new = new, !.body = new,
                                   !.reason = "update"] :
        old \in {<<>>, [spec |-> [x |-> "1"]]},
        new \in {<<>>, [spec |-> [x |-> "1"]], [spec |-> [x |-> "2"]]}}

FinalizerSpawningCauses ==
    {[ResourceCause("SpawningCause", "pods") EXCEPT !.body = body] :
        body \in {<<>>, [spec |-> [x |-> "1"]]}}

NextFinalizer ==
    \/ \E handler \in FinalizerChangingHandlers :
           AppendChanging(handler, MaxFinalizerHandlers)
    \/ \E handler \in FinalizerSpawningHandlers :
           AppendSpawning(handler, MaxFinalizerHandlers)
    \/ \E excluded \in {{}, {"b"}} :
           \/ \E cause \in FinalizerChangingCauses :
                  RequiresFinalizer("changing", cause, excluded)
           \/ \E cause \in FinalizerSpawningCauses :
                  RequiresFinalizer("spawning", cause, excluded)
    \/ Return

SpecFinalizer == Init /\ [][NextFinalizer]_vars

\* requires_finalizer has returned on the registry of the category.
FinalizerCall(category) == call.op = "requires_finalizer" /\ call.category = category

\* The handlers with their field-change criteria, reason and initial flag
\* taken away.
WithoutChangeCriteria(_handlers) ==
    [i \in 1..Len(_handlers) |->
        [_handlers[i] EXCEPT !.field_needs_change = FALSE, !.old = None, !.new = None,
                             !.reason = None, !.initial = FALSE]]

(***************************************************************************)
(* C9.  ChangingRegistry.requires_finalizer(cause, excluded) is true       *)
(* exactly when a registered handler whose id is not excluded has          *)
(* requires_finalizer set and satisfies prematch; the answer is that of    *)
(* the registry with the field-change criteria, the reasons and the        *)
(* initial flags of its handlers taken away.  SpawningRegistry's is true   *)
(* exactly when such a handler satisfies match.                            *)
(***************************************************************************)
C9_RequiresFinalizer ==
    /\ FinalizerCall("changing") =>
          /\ call.result =
                 (\E handler \in Range(_changing) :
                      /\ handler.id \notin call.excluded
                      /\ handler.requires_finalizer
                      /\ prematch(handler, call.cause))
          /\ call.result =
                 ChangingRegistry_requires_finalizer(
                     WithoutChangeCriteria(_changing), call.cause, call.excluded)
    /\ FinalizerCall("spawning") =>
          call.result =
              (\E handler \in Range(_spawning) :
                   /\ handler.id \notin call.excluded
                   /\ handler.requires_finalizer
                   /\ match(handler, call.cause))

\* A finalizer is required for a cause for which get_handlers returns no
\* handler.
C9_Witness ==
    /\ FinalizerCall("changing")
    /\ call.result
    /\ _changing # <<>>
    /\ get_handlers("changing", _changing, call.cause, call.excluded) = <<>>

(***************************************************************************)
(* The operator registry as a whole: bounds, inputs and specification.     *)
(* Handlers of the ids "a" and "b" are registered in the six registries    *)
(* for the resource "pods"; the causes are about "pods" or about "jobs",   *)
(* a resource no handler is registered for.                                *)
(***************************************************************************)
MaxHandlers == 2

Ids == {"a", "b"}

\* Handlers of a class with no filter; with refusing, those of id "b" may
\* also carry a when-callback that refuses every cause.
PlainHandlers(cls, refusing) ==
    {h \in {[ResourceHandler(cls, id, "f") EXCEPT !.when = when] :
                id \in Ids, when \in {None, "fn:never"}} :
        h.when = None \/ (refusing /\ h.id = "b")}

AllActivityHandlers == [id : Ids, fn : {"f"}, activity : {None}, _fallback : {FALSE}]

AllIndexingHandlers == PlainHandlers("IndexingHandler", TRUE)

AllWatchingHandlers == PlainHandlers("WatchingHandler", FALSE)

AllSpawningHandlers ==
    {[SpawningHandler(id, "f") EXCEPT !.requires_finalizer = flag] :
        id \in Ids, flag \in BOOLEAN}

AllChangingHandlers ==
    {h \in {[ChangingHandler(id, "f") EXCEPT !.requires_finalizer = flag,
                                             !.when = when] :
                id \in Ids, flag \in BOOLEAN, when \in {None, "fn:never"}} :
        h.when = None \/ h.id = "b"}

AllWebhookHandlers == {WebhookHandler(id, "f") : id \in Ids}

Categories == {"indexing", "watching", "spawning", "changing", "webhooks"}

Resources == {"pods", "jobs"}

ExcludedSets == {{}, {"a"}, {"a", "b"}}

\* The cause a registry of the category is asked about.
cause_of(category, resource) ==
    CASE category = "indexing" -> ResourceCause("IndexingCause", resource)
      [] category = "watching" -> ResourceCause("WatchingCause", resource)
      [] category = "spawning" -> ResourceCause("SpawningCause", resource)
      [] category = "changing" -> ChangingCause(resource)
      [] category = "webhooks" -> WebhookCause(resource)

\* The causes the registry of each category is asked about.
Causes ==
    [category \in Categories |->
        {cause_of(category, resource) : resource \in Resources}]

Next ==
    \/ \E handler \in AllActivityHandlers : AppendActivity(handler, MaxHandlers)
    \/ \E handler \in AllIndexingHandlers : AppendIndexing(handler, MaxHandlers)
    \/ \E handler \in AllWatchingHandlers : AppendWatching(handler, MaxHandlers)
    \/ \E handler \in AllSpawningHandlers : AppendSpawning(handler, MaxHandlers)
    \/ \E handler \in AllChangingHandlers : AppendChanging(handler, MaxHandlers)
    \/ \E handler \in AllWebhookHandlers : AppendWebhook(handler, MaxHandlers)
    \/ GetActivityHandlers("STARTUP")
    \/ \E category \in Categories, excluded \in ExcludedSets :
           \E cause \in Causes[category] : GetHandlers(category, cause, excluded)
    \/ \E category \in {"spawning", "changing"}, excluded \in ExcludedSets :
           \E cause \in Causes[category] : RequiresFinalizer(category, cause, excluded)
    \/ \E resource \in Resources : GetResourceHandlers(resource)
    \/ \E handler \in AllChangingHandlers, cause \in Causes["changing"] :
           Match(handler, cause)
    \/ Return

Spec == Init /\ [][Next]_vars

\* The handlers whose id is not excluded, in their order.
NotExcluded(_handlers, excluded) ==
    SelectSeq(_handlers, LAMBDA h: h.id \notin excluded)

\* No registered handler of the category selects the resource of the cause.
UnknownResource(category, cause) ==
    \A handler \in Range(registry_of(category)) :
        handler.selector # None /\ handler.selector # "*"
            /\ handler.selector # cause.resource

(***************************************************************************)
(* C10.  For each of the five resource registries, get_handlers(cause,     *)
(* excluded) holds no handler whose id is excluded and is                  *)
(* get_handlers(cause) with the handlers of the excluded ids removed;      *)
(* requires_finalizer(cause, excluded) is the answer of the registry       *)
(* without the handlers of the excluded ids.  For a resource that no       *)
(* handler selects the results are the empty sequence and false.           *)
(***************************************************************************)
C10_Excluded ==
    /\ call.op = "get_handlers" =>
          /\ \A handler \in Range(call.result) : handler.id \notin call.excluded
          /\ call.result =
                 NotExcluded(get_handlers(call.category, registry_of(call.category),
                                          call.cause, {}),
                             call.excluded)
          /\ UnknownResource(call.category, call.cause) => call.result = <<>>
    /\ call.op = "requires_finalizer" =>
          /\ call.result =
                 requires_finalizer(call.category,
                                    NotExcluded(registry_of(call.category), call.excluded),
                                    call.cause, {})
          /\ UnknownResource(call.category, call.cause) => call.result = FALSE

\* The handler of id "a" is excluded and would have been returned; the one of
\* id "b" is returned alone.
C10_Witness ==
    /\ call.op = "get_handlers"
    /\ call.excluded = {"a"}
    /\ Len(call.result) = 1
    /\ call.result[1].id = "b"
    /\ Len(get_handlers(call.category, registry_of(call.category), call.cause, {})) = 2

(***************************************************************************)
(* The snapshot of a registry and the order of its lookups.                *)
(* get_all_handlers returns list(self._handlers): a list object of its     *)
(* own, which the caller may change.  A list is written as the object it   *)
(* is ("copy": a new list; "_handlers": the list of the registry) and its  *)
(* items.                                                                  *)
(***************************************************************************)
MaxOrderHandlers == 2

get_all_handlers_same_list(_handlers) ==
    [object |-> "_handlers", items |-> _handlers]

\* GenericRegistry.get_all_handlers.
get_all_handlers(_handlers) ==
    [object |-> "copy", items |-> _handlers]

AllCategories == {"activities"} \cup Categories

\* The list self._handlers of the registry of a category.
handlers_of(category) ==
    IF category = "activities" THEN _activities ELSE registry_of(category)

OrderActivityHandlers ==
    [id : Ids, fn : {"f"}, activity : {None}, _fallback : BOOLEAN]

\* registry.get_all_handlers() on the registry of a category.
GetAllHandlers(category) ==
    /\ call = NoCall
    /\ call' = [op |-> "get_all_handlers",
                category |-> category,
                result |-> get_all_handlers(handlers_of(category)),
                changed |-> FALSE]
    /\ UNCHANGED <<registries, default_registry_state>>

\* The caller changes the list it was given (del result[0]).  The registry
\* changes with it when the list is the registry's own.
ChangeSnapshot ==
    /\ call.op = "get_all_handlers"
    /\ ~call.changed
    /\ call.result.items # <<>>
    /\ LET items == Tail(call.result.items)
           own == call.result.object = "_handlers"
           changes(category) == own /\ call.category = category
       IN  /\ call' = [call EXCEPT !.result.items = items, !.changed = TRUE]
           /\ _activities' = IF changes("activities") THEN items ELSE _activities
           /\ _indexing' = IF changes("indexing") THEN items ELSE _indexing
           /\ _watching' = IF changes("watching") THEN items ELSE _watching
           /\ _spawning' = IF changes("spawning") THEN items ELSE _spawning
           /\ _changing' = IF changes("changing") THEN items ELSE _changing
           /\ _webhooks' = IF changes("webhooks") THEN items ELSE _webhooks
    /\ UNCHANGED default_registry_state

\* The caller repeats its get_handlers call, with the same arguments.
GetHandlersAgain ==
    /\ call.op \in {"get_handlers", "activity.get_handlers"}
    /\ call' = IF call.op = "get_handlers"
               THEN [op |-> "get_handlers.again",
                     category |-> call.category,
                     first |-> call.result,
                     result |-> get_handlers(call.category, registry_of(call.category),
                                             call.cause, call.excluded)]
               ELSE [op |-> "get_handlers.again",
                     category |-> "activities",
                     first |-> call.result,
                     result |-> ActivityRegistry_get_handlers(_activities, call.activity)]
    /\ UNCHANGED <<registries, default_registry_state>>

NextOrder ==
    \/ \E handler \in OrderActivityHandlers : AppendActivity(handler, MaxOrderHandlers)
    \/ \E handler \in AllIndexingHandlers : AppendIndexing(handler, MaxOrderHandlers)
    \/ \E handler \in AllWatchingHandlers : AppendWatching(handler, MaxOrderHandlers)
    \/ \E handler \in AllSpawningHandlers : AppendSpawning(handler, MaxOrderHandlers)
    \/ \E handler \in AllChangingHandlers : AppendChanging(handler, MaxOrderHandlers)
    \/ \E handler \in AllWebhookHandlers : AppendWebhook(handler, MaxOrderHandlers)
    \/ \E category \in AllCategories : GetAllHandlers(category)
    \/ ChangeSnapshot
    \/ GetActivityHandlers("STARTUP")
    \/ \E category \in Categories, excluded \in {{}, {"a"}} :
           \E cause \in Causes[category] : GetHandlers(category, cause, excluded)
    \/ GetHandlersAgain
    \/ Return

SpecOrder == Init /\ [][NextOrder]_vars

\* sub is seq with some of its items left out, the others in their order.
RECURSIVE IsSubsequence(_, _)
IsSubsequence(sub, seq) ==
    IF sub = <<>> THEN TRUE
    ELSE IF seq = <<>> THEN FALSE
    ELSE IF Head(sub) = Head(seq) THEN IsSubsequence(Tail(sub), Tail(seq))
    ELSE IsSubsequence(sub, Tail(seq))

\* A step leaves the list of a registry as it is or appends one handler to it.
AppendOnly ==
    \A category \in AllCategories :
        \/ handlers_of(category)' = handlers_of(category)
        \/ /\ Len(handlers_of(category)') = Len(handlers_of(category)) + 1
           /\ SubSeq(handlers_of(category)', 1, Len(handlers_of(category)))
                  = handlers_of(category)

MaxSets == 2

SmartOperatorRegistry(n) == "SmartOperatorRegistry:" \o ToString(n)

OwnRegistries == {"registry:1", "registry:2"}

\* get_default_registry: `if _default_registry is None`.
get_default_registry_test(w) ==
    /\ frames[w].pc = "idle"
    /\ frames' = [frames EXCEPT ![w] =
                     [pc |-> IF _default_registry = None THEN "construct" ELSE "return",
                      registry |-> None,
                      result |-> None,
                      after |-> Len(assigned)]]
    /\ UNCHANGED <<registries, call, _default_registry, constructed, assigned>>

\* get_default_registry: SmartOperatorRegistry(), the right side of the assignment.
get_default_registry_construct(w) ==
    /\ frames[w].pc = "construct"
    /\ constructed' = constructed + 1
    /\ frames' = [frames EXCEPT ![w].pc = "store",
                                ![w].registry = SmartOperatorRegistry(constructed + 1)]
    /\ UNCHANGED <<registries, call, _default_registry, assigned>>

\* get_default_registry: `_default_registry = ...`, the assignment.
get_default_registry_store(w) ==
    /\ frames[w].pc = "store"
    /\ _default_registry' = frames[w].registry
    /\ frames' = [frames EXCEPT ![w].pc = "return"]
    /\ UNCHANGED <<registries, call, constructed, assigned>>

\* get_default_registry: `return _default_registry`.
get_default_registry_return(w) ==
    /\ frames[w].pc = "return"
    /\ frames' = [frames EXCEPT ![w].pc = "idle", ![w].result = _default_registry]
    /\ UNCHANGED <<registries, call, _default_registry, constructed, assigned>>

\* set_default_registry(registry).
set_default_registry(registry) ==
    /\ Len(assigned) < MaxSets
    /\ _default_registry' = registry
    /\ assigned' = Append(assigned, registry)
    /\ UNCHANGED <<registries, call, frames, constructed>>

NextDefault ==
    \/ \E w \in Workers : get_default_registry_test(w)
    \/ \E w \in Workers : get_default_registry_construct(w)
    \/ \E w \in Workers : get_default_registry_store(w)
    \/ \E w \in Workers : get_default_registry_return(w)
    \/ \E registry \in OwnRegistries : set_default_registry(registry)

SpecDefault == Init /\ [][NextDefault]_vars

\* The worker is back from a call of get_default_registry.
Returned(w) == frames[w].pc = "idle" /\ frames[w].result # None

(***************************************************************************)
(* C12.  While set_default_registry was never called, at most one          *)
(* SmartOperatorRegistry is constructed and the calls of                   *)
(* get_default_registry that have returned all returned the same           *)
(* instance; a call of get_default_registry that began after the latest    *)
(* set_default_registry(r) returns r and constructs no registry.           *)
(***************************************************************************)
C12_DefaultRegistryCreatedOnce ==
    /\ assigned = <<>> =>
          /\ constructed <= 1
          /\ \A v, w \in Workers :
                 (Returned(v) /\ Returned(w)) => frames[v].result = frames[w].result
    /\ \A w \in Workers :
          (assigned # <<>> /\ frames[w].after = Len(assigned)) =>
              /\ frames[w].registry = None
              /\ Returned(w) => frames[w].result = assigned[Len(assigned)]

(***************************************************************************)
(* C1.  The two-tier rule of ActivityRegistry.get_handlers, where a        *)
(* handler matches when its activity is None or the requested one: if a    *)
(* non-fallback handler matches, the result holds no fallback handler; if  *)
(* none does, the result holds every matching fallback handler.            *)
(***************************************************************************)
activity_matches(handler, activity) ==
    handler.activity = None \/ handler.activity = activity

C1_TwoTierRule ==
    call.op = "activity.get_handlers" =>
        LET regular == \E h \in Range(_activities) :
                            activity_matches(h, call.activity) /\ ~h._fallback
        IN  /\ regular => \A h \in Range(call.result) : ~h._fallback
            /\ ~regular => \A h \in Range(_activities) :
                   (activity_matches(h, call.activity) /\ h._fallback)
                       => h \in Range(call.result)

====
